---- MODULE Spec2Model ----
(***************************************************************************)
(* Model of the three standalone scripts of the repository:                *)
(*   util/gen_eval_points.py          generate_eval_mesh                   *)
(*   2D_Transient_Heat_Ground_Truth.py  Backward-Euler time-stepping loop  *)
(*   test/1D_Poisson_JAX-FEM.py       hand-built 1D mesh                   *)
(* One run executes one script; prog records which one.  Real numbers are  *)
(* exact rationals <<num, den>> (den > 0) in the generator, and integer    *)
(* multiples of a fixed unit in the ground-truth script.  The finite       *)
(* element solution is symbolic: a field is the initial data together with *)
(* the sequence of Backward-Euler steps <<dt, t>> applied to it.           *)
(***************************************************************************)
EXTENDS Integers, Sequences, FiniteSets, TLC

\* ---------------------------------------------------------------- bounds
MaxN == 3        \* nx, ny range over 1..MaxN
MaxDen == 3      \* dt ranges over p/q with 1 <= p <= q <= MaxDen
MaxPts == 2      \* at most MaxPts evaluation points in the input file
MaxTimes == 3    \* at most MaxTimes evaluation times in the input file
MaxT == 1        \* evaluation times are drawn from 0..MaxT

\* ------------------------------------------------------ program constants
UnitSide == 2    \* side of the unit square, in coordinate units of 1/2
LinspaceNum == 5 \* np.linspace(0, 1, 5)

VARIABLES
    prog, pc,
    \* generate_eval_mesh
    nx, ny, gen_dt, i, j, k, gen_mesh_coords, gen_dt_coords, gen_file, gen_written,
    \* ground-truth script
    mesh_coords, times, n, t, dt, u, u_n, sol_list, snapshots, sol_json,
    json_written, exc, solveLog,
    \* 1D Poisson test script
    points, cells, problem_created

genVars == <<nx, ny, gen_dt, i, j, k, gen_mesh_coords, gen_dt_coords, gen_file, gen_written>>
truthVars == <<mesh_coords, times, n, t, dt, u, u_n, sol_list, snapshots, sol_json,
               json_written, exc, solveLog>>
poissonVars == <<points, cells, problem_created>>
vars == <<prog, pc, genVars, truthVars, poissonVars>>

\* ------------------------------------------------------------- rationals
Rat(a, b) == <<a, b>>
RatEq(a, b) == a[1] * b[2] = b[1] * a[2]
RatLe(a, b) == a[1] * b[2] <= b[1] * a[2]
RatLt(a, b) == a[1] * b[2] < b[1] * a[2]
RatSub(a, b) == <<a[1] * b[2] - b[1] * a[2], a[2] * b[2]>>
\* integer times rational
IntMul(m, a) == <<m * a[1], a[2]>>
\* 1.0 / m for an integer m >= 1
Recip(m) == <<1, m>>
\* int(1.0 / a): truncation of the quotient, a > 0
IntRecip(a) == a[2] \div a[1]
RatZero == <<0, 1>>
RatOne == <<1, 1>>

\* --------------------------------------------------- generate_eval_mesh
dx == Recip(nx)
dy == Recip(ny)
nt == IntRecip(gen_dt) + 1

GridPoint_yi(ii, jj) == <<IntMul(ii, dx), IntMul(ii, dx)>>
GridPoint(ii, jj) == <<IntMul(ii, dx), IntMul(jj, dx)>>

TimeEntry(kk) == <<IntMul(kk, gen_dt)>>

DtChoices == { Rat(p, q) : <<p, q>> \in { pq \in (1..MaxDen) \X (1..MaxDen) : pq[1] <= pq[2] } }

EmptyFile == [mesh_coord |-> <<>>, dt_coord |-> <<>>]

GenMeshPoint ==
    /\ prog = "gen" /\ pc = "mesh"
    /\ i <= nx /\ j <= ny
    /\ gen_mesh_coords' = Append(gen_mesh_coords, GridPoint(i, j))
    /\ IF j < ny
         THEN /\ j' = j + 1 /\ i' = i /\ pc' = pc
         ELSE /\ j' = 0 /\ i' = i + 1
              /\ pc' = IF i < nx THEN "mesh" ELSE "times"
    /\ UNCHANGED <<prog, nx, ny, gen_dt, k, gen_dt_coords, gen_file, gen_written,
                   truthVars, poissonVars>>

GenTime ==
    /\ prog = "gen" /\ pc = "times"
    /\ k < nt
    /\ gen_dt_coords' = Append(gen_dt_coords, TimeEntry(k))
    /\ k' = k + 1
    /\ pc' = IF k + 1 < nt THEN "times" ELSE "save"
    /\ UNCHANGED <<prog, nx, ny, gen_dt, i, j, gen_mesh_coords, gen_file, gen_written,
                   truthVars, poissonVars>>

GenSave ==
    /\ prog = "gen" /\ pc = "save"
    /\ gen_file' = [mesh_coord |-> gen_mesh_coords, dt_coord |-> gen_dt_coords]
    /\ gen_written' = TRUE
    /\ pc' = "done"
    /\ UNCHANGED <<prog, nx, ny, gen_dt, i, j, k, gen_mesh_coords, gen_dt_coords,
                   truthVars, poissonVars>>

\* ------------------------------------------------- ground-truth script
\* Evaluation points offered to the script, in units of 1/2: the centre, an
\* edge midpoint, a corner, and a point outside the unit square.
EvalPointChoices == { <<1, 1>>, <<0, 1>>, <<UnitSide, UnitSide>>, <<UnitSide + 1, 1>> }
TimeChoices == 0..MaxT

SeqsUpTo(S, m) == UNION { [1..len -> S] : len \in 0..m }

nt_steps == Len(times) - 1

InDomain(p) == p[1] >= 0 /\ p[1] <= UnitSide /\ p[2] >= 0 /\ p[2] <= UnitSide
boundary(p) ==
    InDomain(p) /\ (p[1] = 0 \/ p[1] = UnitSide \/ p[2] = 0 \/ p[2] = UnitSide)

\* u_n after u_n.interpolate(InitialCondition()); u after Function(V)
InitialField == [init |-> "ic", steps |-> <<>>, bc |-> FALSE]
ZeroField == [init |-> "zero", steps |-> <<>>, bc |-> FALSE]

\* Sign of exp(-50*((x-0.5)^2 + (y-0.5)^2)): the exponential is positive
\* everywhere, the boundary of the square included.
InitialCondition(p) == "pos"

\* solve(R == 0, u, bc, J=jac): the Backward-Euler solution from un with
\* step dtv and source time tv, constrained by the Dirichlet condition.
solve_nobc(un, dtv, tv) ==
    [init |-> un.init, steps |-> Append(un.steps, <<dtv, tv>>), bc |-> FALSE]
solve(un, dtv, tv) ==
    [init |-> un.init, steps |-> Append(un.steps, <<dtv, tv>>), bc |-> TRUE]

\* fld(Point(x, y)) for a point of the mesh
PointValue(fld, p) ==
    [fld |-> fld, pt |-> p,
     sgn |-> IF fld.bc /\ boundary(p) THEN "zero"
             ELSE IF fld.steps = <<>> /\ fld.init = "ic" THEN InitialCondition(p)
             ELSE IF fld.steps = <<>> THEN "zero"
             ELSE "any"]

\* point evaluation raises for a point that is not inside the mesh
CanEvaluate(pts) == \A m \in 1..Len(pts) : InDomain(pts[m])

SampleRow(fld, pts) == [m \in 1..Len(pts) |-> PointValue(fld, pts[m])]

SaveInitial ==
    /\ prog = "truth" /\ pc = "save0"
    /\ snapshots' = Append(snapshots, [index |-> 0, fld |-> u_n])
    /\ pc' = "sample0"
    /\ UNCHANGED <<prog, mesh_coords, times, n, t, dt, u, u_n, sol_list, sol_json,
                   json_written, exc, solveLog, genVars, poissonVars>>

SampleInitial_norow ==
    /\ prog = "truth" /\ pc = "sample0"
    /\ IF CanEvaluate(mesh_coords)
         THEN /\ sol_list' = <<>>
              /\ pc' = "loop" /\ exc' = exc
         ELSE /\ pc' = "raised" /\ exc' = "eval"
              /\ sol_list' = sol_list
    /\ UNCHANGED <<prog, mesh_coords, times, n, t, dt, u, u_n, snapshots, sol_json,
                   json_written, solveLog, genVars, poissonVars>>
SampleInitial ==
    /\ prog = "truth" /\ pc = "sample0"
    /\ IF CanEvaluate(mesh_coords)
         THEN /\ sol_list' = Append(sol_list, SampleRow(u_n, mesh_coords))
              /\ pc' = "loop" /\ exc' = exc
         ELSE /\ pc' = "raised" /\ exc' = "eval"
              /\ sol_list' = sol_list
    /\ UNCHANGED <<prog, mesh_coords, times, n, t, dt, u, u_n, snapshots, sol_json,
                   json_written, solveLog, genVars, poissonVars>>

LoopHead ==
    /\ prog = "truth" /\ pc = "loop"
    /\ pc' = IF n < nt_steps THEN "assign" ELSE "dump"
    /\ UNCHANGED <<prog, truthVars, genVars, poissonVars>>

AssignTime_stale ==
    /\ prog = "truth" /\ pc = "assign"
    /\ dt' = times[n + 2] - times[n + 1]
    /\ t' = times[n + 1]
    /\ pc' = "solve"
    /\ UNCHANGED <<prog, mesh_coords, times, n, u, u_n, sol_list, snapshots, sol_json,
                   json_written, exc, solveLog, genVars, poissonVars>>
AssignTime ==
    /\ prog = "truth" /\ pc = "assign"
    /\ dt' = times[n + 2] - times[n + 1]
    /\ t' = times[n + 2]
    /\ pc' = "solve"
    /\ UNCHANGED <<prog, mesh_coords, times, n, u, u_n, sol_list, snapshots, sol_json,
                   json_written, exc, solveLog, genVars, poissonVars>>

SolveStep_swallow ==
    /\ prog = "truth" /\ pc = "solve"
    /\ solveLog' = Append(solveLog, [n |-> n, dt |-> dt, t |-> t, u_n |-> u_n])
    /\ \/ /\ u' = solve(u_n, dt, t)
          /\ pc' = "snapshot" /\ exc' = exc
       \/ /\ pc' = "dump" /\ exc' = "solve"
          /\ u' = u
    /\ UNCHANGED <<prog, mesh_coords, times, n, t, dt, u_n, sol_list, snapshots, sol_json,
                   json_written, genVars, poissonVars>>
SolveStep ==
    /\ prog = "truth" /\ pc = "solve"
    /\ solveLog' = Append(solveLog, [n |-> n, dt |-> dt, t |-> t, u_n |-> u_n])
    /\ \/ /\ u' = solve(u_n, dt, t)
          /\ pc' = "snapshot" /\ exc' = exc
       \/ /\ pc' = "raised" /\ exc' = "solve"
          /\ u' = u
    /\ UNCHANGED <<prog, mesh_coords, times, n, t, dt, u_n, sol_list, snapshots, sol_json,
                   json_written, genVars, poissonVars>>

SaveSnapshot ==
    /\ prog = "truth" /\ pc = "snapshot"
    /\ snapshots' = Append(snapshots, [index |-> n + 1, fld |-> u])
    /\ pc' = "sample"
    /\ UNCHANGED <<prog, mesh_coords, times, n, t, dt, u, u_n, sol_list, sol_json,
                   json_written, exc, solveLog, genVars, poissonVars>>

SampleStep_prev ==
    /\ prog = "truth" /\ pc = "sample"
    /\ IF CanEvaluate(mesh_coords)
         THEN /\ sol_list' = Append(sol_list, SampleRow(u_n, mesh_coords))
              /\ pc' = "update" /\ exc' = exc
         ELSE /\ pc' = "raised" /\ exc' = "eval"
              /\ sol_list' = sol_list
    /\ UNCHANGED <<prog, mesh_coords, times, n, t, dt, u, u_n, snapshots, sol_json,
                   json_written, solveLog, genVars, poissonVars>>
SampleStep ==
    /\ prog = "truth" /\ pc = "sample"
    /\ IF CanEvaluate(mesh_coords)
         THEN /\ sol_list' = Append(sol_list, SampleRow(u, mesh_coords))
              /\ pc' = "update" /\ exc' = exc
         ELSE /\ pc' = "raised" /\ exc' = "eval"
              /\ sol_list' = sol_list
    /\ UNCHANGED <<prog, mesh_coords, times, n, t, dt, u, u_n, snapshots, sol_json,
                   json_written, solveLog, genVars, poissonVars>>

UpdatePrevious ==
    /\ prog = "truth" /\ pc = "update"
    /\ u_n' = u
    /\ n' = n + 1
    /\ pc' = "loop"
    /\ UNCHANGED <<prog, mesh_coords, times, t, dt, u, sol_list, snapshots, sol_json,
                   json_written, exc, solveLog, genVars, poissonVars>>

DumpJson ==
    /\ prog = "truth" /\ pc = "dump"
    /\ sol_json' = sol_list
    /\ json_written' = TRUE
    /\ pc' = "done"
    /\ UNCHANGED <<prog, mesh_coords, times, n, t, dt, u, u_n, sol_list, snapshots,
                   exc, solveLog, genVars, poissonVars>>

\* ------------------------------------------------ 1D Poisson test script
\* np.linspace(lo, hi, num) for integers lo, hi and num >= 2
linspace(lo, hi, num) == [m \in 1..num |-> Rat(lo * (num - 1) + (m - 1) * (hi - lo), num - 1)]

MeshCells == << <<0, 1>>, <<1, 2>>, <<2, 3>>, <<3, 4>>, <<4, 5>> >>

MeshInit ==
    /\ prog = "poisson" /\ pc = "mesh"
    /\ points' = linspace(0, 1, LinspaceNum)
    /\ cells' = MeshCells
    /\ pc' = "problem"
    /\ UNCHANGED <<prog, problem_created, genVars, truthVars>>

CreateProblem ==
    /\ prog = "poisson" /\ pc = "problem"
    /\ problem_created' = TRUE
    /\ pc' = "done"
    /\ UNCHANGED <<prog, points, cells, genVars, truthVars>>

\* ---------------------------------------------------------- specification
GenIdle ==
    /\ nx = 1 /\ ny = 1 /\ gen_dt = RatOne
GenStart ==
    /\ i = 0 /\ j = 0 /\ k = 0
    /\ gen_mesh_coords = <<>> /\ gen_dt_coords = <<>>
    /\ gen_file = EmptyFile /\ gen_written = FALSE
TruthIdle ==
    /\ mesh_coords = <<>> /\ times = <<>>
TruthStart ==
    /\ n = 0 /\ t = 0 /\ dt = 0
    /\ u = ZeroField /\ u_n = InitialField
    /\ sol_list = <<>> /\ snapshots = <<>> /\ sol_json = <<>>
    /\ json_written = FALSE /\ exc = "none" /\ solveLog = <<>>
PoissonStart ==
    /\ points = <<>> /\ cells = <<>> /\ problem_created = FALSE

Init ==
    /\ GenStart /\ TruthStart /\ PoissonStart
    /\ \/ /\ prog = "gen" /\ pc = "mesh"
          /\ nx \in 1..MaxN /\ ny \in 1..MaxN /\ gen_dt \in DtChoices
          /\ TruthIdle
       \/ /\ prog = "truth" /\ pc = "save0"
          /\ mesh_coords \in SeqsUpTo(EvalPointChoices, MaxPts)
          /\ times \in SeqsUpTo(TimeChoices, MaxTimes)
          /\ GenIdle
       \/ /\ prog = "poisson" /\ pc = "mesh"
          /\ GenIdle /\ TruthIdle

Next ==
    \/ GenMeshPoint \/ GenTime \/ GenSave
    \/ SaveInitial \/ SampleInitial \/ LoopHead \/ AssignTime \/ SolveStep
    \/ SaveSnapshot \/ SampleStep \/ UpdatePrevious \/ DumpJson
    \/ MeshInit \/ CreateProblem

Spec == Init /\ [][Next]_vars

\* ------------------------------------------------------------ properties
Max(a, b) == IF a >= b THEN a ELSE b

\* The field that exactly m Backward-Euler steps over the input times give:
\* step s advances from times[s] to times[s+1].
FieldAfter(m) ==
    [init |-> "ic",
     steps |-> [s \in 1..m |-> <<times[s + 1] - times[s], times[s + 1]>>],
     bc |-> m > 0]

\* C1 (as stated): the written solution list has exactly one row per
\* evaluation time, and every row has one value per evaluation point, in the
\* order of mesh_coord.
C1_RowPerTime_AnyTimes ==
    json_written =>
        /\ Len(sol_json) = Len(times)
        /\ \A r \in 1..Len(sol_json) :
              /\ Len(sol_json[r]) = Len(mesh_coords)
              /\ \A m \in 1..Len(mesh_coords) : sol_json[r][m].pt = mesh_coords[m]

\* C1 (amended): the written solution list has one row per evaluation time
\* when the list of times is not empty and a single row (the t=0 row) when
\* it is empty; every row has one value per evaluation point, in the order of
\* mesh_coord.
C1_RowPerTime ==
    json_written =>
        /\ Len(sol_json) = Max(Len(times), 1)
        /\ \A r \in 1..Len(sol_json) :
              /\ Len(sol_json[r]) = Len(mesh_coords)
              /\ \A m \in 1..Len(mesh_coords) : sol_json[r][m].pt = mesh_coords[m]

C1_Witness ==
    /\ json_written
    /\ Len(times) >= 2 /\ Len(sol_json) = Len(times)
    /\ Len(mesh_coords) >= 2 /\ mesh_coords[1] # mesh_coords[2]

\* C2: the generated points form the nx x ny cell grid of [0,1] x [0,1]:
\* every point lies in the unit square, x ranges over i/nx (i in 0..nx) and
\* y ranges over j/ny (j in 0..ny), so both include 0 and 1.
C2_UnitSquareGrid ==
    gen_written =>
        LET pts == gen_file.mesh_coord IN
        /\ \A m \in 1..Len(pts) :
              /\ RatLe(RatZero, pts[m][1]) /\ RatLe(pts[m][1], RatOne)
              /\ RatLe(RatZero, pts[m][2]) /\ RatLe(pts[m][2], RatOne)
              /\ \E ii \in 0..nx : RatEq(pts[m][1], Rat(ii, nx))
              /\ \E jj \in 0..ny : RatEq(pts[m][2], Rat(jj, ny))
        /\ \A ii \in 0..nx : \E m \in 1..Len(pts) : RatEq(pts[m][1], Rat(ii, nx))
        /\ \A jj \in 0..ny : \E m \in 1..Len(pts) : RatEq(pts[m][2], Rat(jj, ny))

\* C3: exactly (nx+1)*(ny+1) points are written, in x-major order (index
\* i*(ny+1)+j holds the point of grid indices (i, j): its x is that of grid
\* column i and its y that of grid row j), and they are pairwise distinct.
C3_PointCountOrder ==
    gen_written =>
        LET pts == gen_file.mesh_coord IN
        /\ Len(pts) = (nx + 1) * (ny + 1)
        /\ \A ii \in 0..nx : \A jj \in 0..ny :
              LET p == pts[ii * (ny + 1) + jj + 1] IN
              /\ RatEq(p[1], Rat(ii, nx))
              /\ RatEq(p[2], pts[jj + 1][2])
              /\ jj > 0 => RatLt(pts[jj][2], p[2])
        /\ \A a \in 1..Len(pts) : \A b \in 1..Len(pts) :
              (RatEq(pts[a][1], pts[b][1]) /\ RatEq(pts[a][2], pts[b][2])) => a = b

C3_Witness ==
    /\ gen_written /\ nx >= 2 /\ ny >= 2 /\ nx # ny
    /\ Len(gen_file.mesh_coord) = (nx + 1) * (ny + 1)

\* C4: for every step size 0 < dt <= 1 the list of times has
\* nt = int(1/dt) + 1 entries [k*dt], starts at 0, ends at 1 and is strictly
\* increasing with constant spacing dt.
C4_TimesCoverUnitLength ==
    gen_written =>
        LET ts == gen_file.dt_coord IN
        /\ Len(ts) = IntRecip(gen_dt) + 1
        /\ \A kk \in 1..Len(ts) : RatEq(ts[kk][1], IntMul(kk - 1, gen_dt))
        /\ RatEq(ts[1][1], RatZero)
        /\ RatEq(ts[Len(ts)][1], RatOne)
        /\ \A kk \in 1..(Len(ts) - 1) :
              /\ RatLt(ts[kk][1], ts[kk + 1][1])
              /\ RatEq(RatSub(ts[kk + 1][1], ts[kk][1]), gen_dt)

\* C5: the steps 0..nt_steps-1 are each solved once, in increasing order; the
\* solve of step n sees dt = times[n+1] - times[n], t = times[n+1] and u_n =
\* the solution of step n-1 (the initial condition for n = 0); u_n takes the
\* new solution only once the solve and the sampling of step n are done.
C5_StepOrder ==
    prog = "truth" =>
        /\ \A s \in 1..Len(solveLog) :
              /\ solveLog[s].n = s - 1
              /\ solveLog[s].dt = times[s + 1] - times[s]
              /\ solveLog[s].t = times[s + 1]
              /\ solveLog[s].u_n = FieldAfter(s - 1)
        /\ u_n = FieldAfter(n)
        /\ pc \in {"assign", "solve"} => Len(solveLog) = n
        /\ pc \in {"snapshot", "sample", "update"} =>
              /\ Len(solveLog) = n + 1
              /\ u = FieldAfter(n + 1)
        /\ pc = "update" => Len(sol_list) = n + 2
        /\ pc = "done" => /\ Len(solveLog) = Max(nt_steps, 0)
                          /\ n = Max(nt_steps, 0)

C5_Witness ==
    /\ prog = "truth" /\ pc = "update" /\ n = 1
    /\ Len(solveLog) = 2
    /\ times[1] # times[2] /\ times[2] # times[3]

\* C6: row k of the solution list is the solution at times[k]: row 0 is the
\* initial condition sampled before any solve, and row k >= 1 is the newly
\* solved field of step k-1, never the previous field nor a later one.
C6_RowIsSolutionAtTime ==
    prog = "truth" =>
        /\ \A r \in 1..Len(sol_list) : \A m \in 1..Len(mesh_coords) :
              /\ sol_list[r][m].fld = FieldAfter(r - 1)
              /\ sol_list[r][m].pt = mesh_coords[m]
        /\ json_written => sol_json = sol_list

C6_Witness ==
    /\ prog = "truth" /\ json_written
    /\ Len(sol_json) = 3 /\ Len(mesh_coords) >= 1
    /\ sol_json[2][1].fld # sol_json[3][1].fld
    /\ sol_json[1][1].fld = InitialField

\* C7 (as stated): every recorded row, the t=0 row included, is zero at every
\* evaluation point on the boundary of the domain.
C7_AllRowsZeroOnBoundary ==
    prog = "truth" =>
        \A r \in 1..Len(sol_list) : \A m \in 1..Len(mesh_coords) :
            boundary(mesh_coords[m]) => sol_list[r][m].sgn = "zero"

\* C7 (amended): the Dirichlet condition is applied in every solve of the
\* loop, so every row recorded after a solve (rows k >= 1) is zero at every
\* evaluation point on the boundary; row 0 is the interpolated initial
\* condition, which no boundary condition is applied to and which is
\* positive on the boundary.
C7_SolvedRowsZeroOnBoundary ==
    prog = "truth" =>
        /\ \A s \in 1..Len(snapshots) : snapshots[s].index >= 1 => snapshots[s].fld.bc
        /\ \A m \in 1..Len(mesh_coords) :
              boundary(mesh_coords[m]) =>
                 /\ \A r \in 2..Len(sol_list) : sol_list[r][m].sgn = "zero"
                 /\ Len(sol_list) >= 1 => sol_list[1][m].sgn = "pos"

C7_Witness ==
    /\ prog = "truth" /\ Len(sol_list) >= 3
    /\ \E m \in 1..Len(mesh_coords) :
          /\ boundary(mesh_coords[m])
          /\ sol_list[3][m].sgn = "zero"
    /\ \E m \in 1..Len(mesh_coords) : ~boundary(mesh_coords[m])

\* C8: when the solve or a point evaluation raises, the run stops: the
\* solution file is never written, no later step executes, and the snapshots
\* of the steps completed before the failure are still there.
C8_FailureStopsRun ==
    (prog = "truth" /\ exc # "none") =>
        /\ ~json_written
        /\ sol_json = <<>>
        /\ ~ENABLED Next
        /\ \A s \in 0..n : \E f \in 1..Len(snapshots) :
              /\ snapshots[f].index = s
              /\ snapshots[f].fld = FieldAfter(s)

C8_Witness ==
    /\ prog = "truth" /\ exc = "solve" /\ n >= 1
    /\ Len(snapshots) = n + 1 /\ Len(sol_list) = n + 1

\* C9: the hand-built mesh is well-formed: every node index of every cell is
\* a valid index into points, there is one cell less than there are points,
\* and consecutive cells share one node.
C9_MeshWellFormed ==
    (prog = "poisson" /\ pc # "mesh") =>
        /\ \A c \in 1..Len(cells) : \A e \in 1..2 :
              cells[c][e] >= 0 /\ cells[c][e] < Len(points)
        /\ Len(cells) = Len(points) - 1
        /\ \A c \in 1..(Len(cells) - 1) : cells[c][2] = cells[c + 1][1]
====
